---- MODULE Spec2Model ----
(***************************************************************************)
(* Model of scrapers/JustForFans/JustForFans.py: the target resolver       *)
(* (_find_target), the paginated crawl (_scrape_post), the record builders *)
(* (_build_scene, _build_gallery), profile resolution and main.            *)
(*                                                                         *)
(* Strings are sequences of one-character strings, so that normalisation   *)
(* and substring containment are computed character by character, as the   *)
(* regular expressions and the `in` operator of the source do.             *)
(***************************************************************************)
EXTENDS Integers, Sequences, FiniteSets, TLC

VARIABLES
    \* ---- one call of _find_target (specification FindTargetSpec)
    ft_pc,          \* "idle" | "call" | "ret"
    ft_posts,       \* argument posts
    ft_target,      \* arguments target_id, target_text, target_date, target_keywords
    ft_result,      \* position in ft_posts of the returned post, 0 for None
    \* ---- one call of _scrape_post, from the loop on (specification Spec)
    pc,             \* "idle" | "loop" | "done"
    cfg,            \* CONFIG values and the arguments of _scrape_post
    current,        \* local current: StartAt of the next feed request
    pages,          \* local pages
    latest_post,    \* local latest_post (None or a ParsedPost)
    response,       \* the response to the feed request of the iteration that
                    \* ended the crawl (NoResponse at the loop head)
    cards,          \* local cards of that iteration (empty at the loop head)
    requests,       \* history: StartAt of every feed request issued, in order
    links,          \* history: what _next_start_at returned for every page on
                    \* which it was called, in order
    find_calls,     \* history: number of calls of _find_target
    matches,        \* history: what every call of _find_target returned, in order
    passed_locked,  \* history: a locked post was in a batch given to _find_target
    outcome,        \* "running" | "success" | the message of the ScraperError
    result,         \* the post returned (None unless outcome = "success")
    \* ---- one call of _build_scene / _build_gallery (specification BuildSpec)
    b_pc,           \* "idle" | "call" | "ret"
    b_args,         \* the builder called and its arguments post, url, performer
    b_tags,         \* what _extract_hashtags(post.full_text) returned
    b_record,       \* the dict returned
    \* ---- one call of _resolve_profile (specification ProfileSpec)
    pr_pc,          \* "idle" | "call" | "ret"
    pr_args,        \* argument url and the response session.get gives
    pr_result,      \* the ScraperError raised, or poster_id and performer returned
    \* ---- one invocation of the script (specification MainSpec)
    m_pc,           \* "idle" | "main" | "crawl" | "exit"
    inv,            \* op and args of scraper_args(), and the CONFIG values
    profile,        \* the response to the profile fetch (NoResponse if none)
    profile_fetches, \* history: number of profile fetches
    poster_id,      \* local poster_id of _scrape_post
    performer,      \* local performer of _scrape_post
    warnings,       \* history: the log.warning messages, in order
    stdout,         \* what was printed, in order
    exit_code       \* -1 while running, then the exit status of the process

ft_vars == <<ft_pc, ft_posts, ft_target, ft_result>>
crawl_vars == <<pc, cfg, current, pages, latest_post, response, cards, requests, links,
                find_calls, matches, passed_locked, outcome, result>>
build_vars == <<b_pc, b_args, b_tags, b_record>>
profile_vars == <<pr_pc, pr_args, pr_result>>
main_vars == <<m_pc, inv, profile, profile_fetches, poster_id, performer,
               warnings, stdout, exit_code>>
vars == <<ft_vars, crawl_vars, build_vars, profile_vars, main_vars>>

----------------------------------------------------------------------------
(* Bounds of the model *)

MaxBatch == 3       \* posts in a batch given to _find_target
MaxKeywords == 2    \* length of target_keywords
MaxPagePosts == 2   \* post cards on one feed page
MaxPagesCfg == 2    \* largest configured max_pages
MaxCursor == 3      \* largest StartAt in a next-page link

----------------------------------------------------------------------------
(* Characters and strings *)

LowerLetters == {"a","b","c","d","e","f","g","h","i","j","k","l","m",
                 "n","o","p","q","r","s","t","u","v","w","x","y","z"}
Digits == {"0","1","2","3","4","5","6","7","8","9"}
Whitespace == {" ", "\n", "\t"}

\* str.lower() on the characters the model uses
Lower(c) ==
    CASE c = "B" -> "b"
      [] c = "F" -> "f"
      [] c = "G" -> "g"
      [] c = "M" -> "m"
      [] c = "N" -> "n"
      [] c = "S" -> "s"
      [] c = "U" -> "u"
      [] c = "Y" -> "y"
      [] OTHER -> c

\* value.lower()
LowerAll(s) == [i \in 1..Len(s) |-> Lower(s[i])]

\* re.sub(r"[^a-z0-9\s]", " ", value), one character
PlainChar(c) ==
    IF c \in LowerLetters \cup Digits \cup Whitespace THEN c ELSE " "

RECURSIVE DropWhile(_, _)
DropWhile(s, Class) ==
    IF s # <<>> /\ Head(s) \in Class THEN DropWhile(Tail(s), Class) ELSE s

\* re.sub(r"[Class]+", " ", s): every maximal run of Class becomes one space
RECURSIVE SubRuns(_, _)
SubRuns(s, Class) ==
    IF s = <<>> THEN <<>>
    ELSE IF Head(s) \in Class
         THEN <<" ">> \o SubRuns(DropWhile(Tail(s), Class), Class)
         ELSE <<Head(s)>> \o SubRuns(Tail(s), Class)

RECURSIVE DropTrailing(_, _)
DropTrailing(s, Class) ==
    IF s # <<>> /\ s[Len(s)] \in Class
    THEN DropTrailing(SubSeq(s, 1, Len(s) - 1), Class)
    ELSE s

\* str.strip()
Strip(s) == DropTrailing(DropWhile(s, Whitespace), Whitespace)

\* needle in haystack (Python substring test; the empty string is in every string)
Contains(needle, haystack) ==
    \E i \in 0..(Len(haystack) - Len(needle)) :
        SubSeq(haystack, i + 1, i + Len(needle)) = needle

\* Python truthiness of a str / list
Truthy(s) == s # <<>>

_normalize_digits(value) ==
    IF ~Truthy(value) THEN <<>>
    ELSE SelectSeq(value, LAMBDA c : c \in Digits)

_normalize_text(value) ==
    IF ~Truthy(value) THEN <<>>
    ELSE LET lowered == LowerAll(value)
             dashed == SubRuns(lowered, {"_", "-"})
             plain == [i \in 1..Len(dashed) |-> PlainChar(dashed[i])]
         IN  Strip(SubRuns(plain, Whitespace))

----------------------------------------------------------------------------
(* ParsedPost *)

NoDate == "None"            \* date = None
None == [none |-> TRUE]     \* a missing post

PreviewLen == 80

\* the ParsedPost that _parse_post builds from a card's id, kind, date,
\* rich-text body, images and lock marker
ParsedPost(post_id, post_type, date, full_text, photos, locked) ==
    [post_id |-> post_id,
     post_id_digits |-> _normalize_digits(post_id),
     post_type |-> post_type,
     date |-> date,
     full_text |-> full_text,
     text_preview |->
        LET collapsed == SubRuns(full_text, Whitespace)
        IN  Strip(SubSeq(collapsed, 1,
                         IF Len(collapsed) < PreviewLen THEN Len(collapsed)
                         ELSE PreviewLen)),
     photos |-> photos,
     locked |-> locked]

----------------------------------------------------------------------------
(* _find_target: a post is named by its position in posts, 0 is None *)

\* _normalize_text(post.full_text or post.text_preview)
Haystack(post) ==
    _normalize_text(IF Truthy(post.full_text) THEN post.full_text
                    ELSE post.text_preview)

KeywordScore_DistinctWords(post, target_keywords) ==
    Cardinality({target_keywords[k] : k \in {k \in 1..Len(target_keywords) :
                    Contains(target_keywords[k], Haystack(post))}})

\* sum(1 for kw in target_keywords if kw in haystack)
KeywordScore(post, target_keywords) ==
    Cardinality({k \in 1..Len(target_keywords) :
                    Contains(target_keywords[k], Haystack(post))})

\* the positions of posts, in batch order
Indices(posts) == [i \in 1..Len(posts) |-> i]

Better_AlsoOnTie(score, best_score) == score >= best_score

\* if score > best_score
Better(score, best_score) == score > best_score

\* for post in candidates: ... if score > best_score: best_score = score; best = post
RECURSIVE ScanBest(_, _, _, _, _)
ScanBest(posts, candidates, target_keywords, best, best_score) ==
    IF candidates = <<>> THEN [best |-> best, best_score |-> best_score]
    ELSE LET i == Head(candidates)
             score == KeywordScore(posts[i], target_keywords)
         IN  IF Better(score, best_score)
             THEN ScanBest(posts, Tail(candidates), target_keywords, i, score)
             ELSE ScanBest(posts, Tail(candidates), target_keywords, best, best_score)

IdRule_LastMatch(posts, target_digits) ==
    LET hits == SelectSeq(Indices(posts),
                    LAMBDA i : posts[i].post_id_digits = target_digits)
    IN  IF hits = <<>> THEN 0 ELSE hits[Len(hits)]

\* for post in posts: if post.post_id_digits == target_digits: return post
IdRule(posts, target_digits) ==
    LET hits == SelectSeq(Indices(posts),
                    LAMBDA i : posts[i].post_id_digits = target_digits)
    IN  IF hits = <<>> THEN 0 ELSE hits[1]

DateRule_KeywordFallback(posts, target_date, target_keywords) ==
    LET date_posts == SelectSeq(Indices(posts),
                          LAMBDA i : posts[i].date = target_date)
        everyone == Indices(posts)
    IN  IF date_posts = <<>>
        THEN LET scan == ScanBest(posts, everyone, target_keywords, 0, -1)
             IN  IF scan.best_score > 0 THEN scan.best ELSE 0
        ELSE IF ~Truthy(target_keywords) THEN date_posts[1]
        ELSE LET scan == ScanBest(posts, date_posts, target_keywords, 0, -1)
             IN  IF scan.best # 0 THEN scan.best ELSE date_posts[1]

\* the branch `if target_date:`; always returns
DateRule(posts, target_date, target_keywords) ==
    LET date_posts == SelectSeq(Indices(posts),
                          LAMBDA i : posts[i].date = target_date)
    IN  IF date_posts = <<>> THEN 0
        ELSE IF ~Truthy(target_keywords) THEN date_posts[1]
        ELSE LET scan == ScanBest(posts, date_posts, target_keywords, 0, -1)
             IN  IF scan.best # 0 THEN scan.best ELSE date_posts[1]

TextRule_LastMatch(posts, target_text_norm) ==
    LET hits == SelectSeq(Indices(posts),
                    LAMBDA i : Truthy(target_text_norm)
                               /\ Contains(target_text_norm, Haystack(posts[i])))
    IN  IF hits = <<>> THEN 0 ELSE hits[Len(hits)]

\* the branch `if target_text_norm:`; 0 when the loop ends without a return
TextRule(posts, target_text_norm) ==
    LET hits == SelectSeq(Indices(posts),
                    LAMBDA i : Truthy(target_text_norm)
                               /\ Contains(target_text_norm, Haystack(posts[i])))
    IN  IF hits = <<>> THEN 0 ELSE hits[1]

KeywordRule_ZeroScoreWins(posts, target_keywords) ==
    LET everyone == Indices(posts)
        scan == ScanBest(posts, everyone, target_keywords, 0, -1)
    IN  scan.best

\* the branch `if target_keywords:`; always returns
KeywordRule(posts, target_keywords) ==
    LET everyone == Indices(posts)
        scan == ScanBest(posts, everyone, target_keywords, 0, -1)
    IN  IF scan.best_score > 0 THEN scan.best ELSE 0

_find_target_TextMissIsFinal(posts, target_id, target_text, target_date, target_keywords) ==
    LET target_digits == _normalize_digits(target_id)
        target_text_norm == _normalize_text(target_text)
        by_id == IF Truthy(target_digits) THEN IdRule(posts, target_digits) ELSE 0
    IN  IF by_id # 0 THEN by_id
        ELSE IF posts = <<>> THEN 0
        ELSE IF target_date # NoDate
             THEN DateRule(posts, target_date, target_keywords)
        ELSE IF Truthy(target_text_norm) THEN TextRule(posts, target_text_norm)
        ELSE IF Truthy(target_keywords)
             THEN KeywordRule(posts, target_keywords)
        ELSE 0

_find_target(posts, target_id, target_text, target_date, target_keywords) ==
    LET target_digits == _normalize_digits(target_id)
        target_text_norm == _normalize_text(target_text)
        by_id == IF Truthy(target_digits) THEN IdRule(posts, target_digits) ELSE 0
        by_text == IF Truthy(target_text_norm)
                   THEN TextRule(posts, target_text_norm) ELSE 0
    IN  IF by_id # 0 THEN by_id
        ELSE IF posts = <<>> THEN 0
        ELSE IF target_date # NoDate
             THEN DateRule(posts, target_date, target_keywords)
        ELSE IF by_text # 0 THEN by_text
        ELSE IF Truthy(target_keywords)
             THEN KeywordRule(posts, target_keywords)
        ELSE 0

----------------------------------------------------------------------------
(* Inputs *)

u1 == <<"u", "1">>
u2 == <<"u", "2">>

\* four feed cards: a video with a photo, a locked photo post without
\* photos, a text post with photos, an empty photo post without a date
PostA == ParsedPost(<<"p","1">>, "video", "2024-05-01",
                    <<"F","u","n"," ","s","u","n">>, <<u1>>, FALSE)
PostB == ParsedPost(<<"p","2">>, "photo", "2024-05-01",
                    <<"g","y","m","-","f","u","n","!">>, <<>>, TRUE)
PostC == ParsedPost(<<"2">>, "text", "2024-06-02",
                    <<"S","u","n","n","y","\n","G","Y","M"," ","f","u","n">>,
                    <<u1, u2>>, FALSE)
PostD == ParsedPost(<<"p","x">>, "photo", NoDate, <<>>, <<>>, FALSE)

PostPool == {PostA, PostB, PostC, PostD}

RECURSIVE SeqsUpTo(_, _)
SeqsUpTo(S, n) ==
    IF n = 0 THEN {<<>>}
    ELSE LET shorter == SeqsUpTo(S, n - 1)
         IN  shorter \cup {Append(s, x) : s \in shorter, x \in S}

NoDuplicates(s) == \A i, j \in 1..Len(s) : s[i] = s[j] => i = j

Fun == <<"f","u","n">>
Sun == <<"s","u","n">>
Gym == <<"g","y","m">>

\* target_keywords as _extract_keywords yields them: normalized words of
\* three or more characters, no duplicates
KeywordLists == {k \in SeqsUpTo({Fun, Sun, Gym}, MaxKeywords) : NoDuplicates(k)}

TargetIds == {<<>>, <<"p","2">>, <<"x">>, <<"9">>}
TargetTexts == {<<>>, <<"G","Y","M","_","f","u","n">>, <<"s","u","n">>, <<"!">>}
TargetDates == {NoDate, "2024-05-01", "2024-07-03"}

----------------------------------------------------------------------------
(* The feed: responses to _request_posts *)

NoStart == -1   \* _next_start_at returns None

\* the next-page link of a page: absent, or an href with or without "StartAt=<n>&"
Links == {[present |-> FALSE, start_at |-> NoStart]}
            \cup {[present |-> TRUE, start_at |-> n] : n \in NoStart..MaxCursor}

NoLink == [present |-> FALSE, start_at |-> NoStart]

NoResponse == [raised |-> FALSE, status_code |-> 0, just_a_moment |-> FALSE,
               cloudflare |-> FALSE, posts |-> <<>>, link |-> NoLink]

\* what session.get does: it raises, or returns a status, a body that may
\* hold the two challenge markers, the post cards and the next-page link
Responses ==
    {[raised |-> FALSE, status_code |-> 200, just_a_moment |-> FALSE,
      cloudflare |-> FALSE, posts |-> p, link |-> l] :
        p \in SeqsUpTo(PostPool, MaxPagePosts), l \in Links}
    \cup {[raised |-> r, status_code |-> st, just_a_moment |-> j,
           cloudflare |-> c, posts |-> <<>>, link |-> NoLink] :
            r \in BOOLEAN, st \in {200, 399, 400, 503}, j \in BOOLEAN, c \in BOOLEAN}

RequestOk == "ok"
ErrRequestFailed == "Request failed"
ErrStatus == "Request failed with status"
ErrChallenge == "Request blocked by Cloudflare challenge"
ErrNotFound == "Target post not found in scanned pages"
ErrNoPosts == "No posts available for this performer"

_request_IgnoresStatus(resp) ==
    IF resp.raised THEN ErrRequestFailed
    ELSE IF resp.just_a_moment /\ resp.cloudflare THEN ErrChallenge
    ELSE RequestOk

\* the ScraperError _request raises for a response, RequestOk if it returns
_request(resp) ==
    IF resp.raised THEN ErrRequestFailed
    ELSE IF resp.status_code >= 400 THEN ErrStatus
    ELSE IF resp.just_a_moment /\ resp.cloudflare THEN ErrChallenge
    ELSE RequestOk

_next_start_at(resp) ==
    IF ~resp.link.present THEN NoStart
    ELSE resp.link.start_at

_is_gallery_candidate_NeedsPhotos(post) ==
    Truthy(post.photos) /\ post.post_type # "video"

_is_gallery_candidate_AnyPhotos(post) ==
    post.post_type = "photo" \/ Truthy(post.photos)

_is_gallery_candidate(post) ==
    IF post.post_type = "photo" THEN TRUE
    ELSE IF Truthy(post.photos) /\ post.post_type # "video" THEN TRUE
    ELSE FALSE

post_ok(post) ==
    IF cfg.require_gallery THEN _is_gallery_candidate(post) ELSE TRUE

Retained_KeepsLocked(post) == post_ok(post)

\* a card is appended to cards unless one of the two `continue` is taken
Retained(post) ==
    /\ ~(post.locked /\ ~cfg.include_locked)
    /\ post_ok(post)

FirstSeen_Overwrites(latest, new_cards) ==
    IF new_cards # <<>> THEN new_cards[Len(new_cards)] ELSE latest

\* latest_post after the cards of a page: `if latest_post is None: latest_post = post`
FirstSeen(latest, new_cards) ==
    IF latest = None /\ new_cards # <<>> THEN new_cards[1] ELSE latest

\* if target_id or target_text or target_date or target_keywords
HasTarget ==
    \/ Truthy(cfg.target_id)
    \/ Truthy(cfg.target_text)
    \/ cfg.target_date # NoDate
    \/ Truthy(cfg.target_keywords)

Matched_Never(match) == FALSE

\* if match
Matched(match) == match # 0

Stalled_OnlyBackward(next_start, cur) == next_start = NoStart \/ next_start < cur

Stalled_OnlyWhenAbsent(next_start, cur) == next_start = NoStart

\* if next_start is None or next_start <= current: break
Stalled(next_start, cur) == next_start = NoStart \/ next_start <= cur

LoopGuard_OneMore(n, max_pages) == n <= max_pages

\* while pages < max_pages
LoopGuard(n, max_pages) == n < max_pages

AfterLoop_PrefersLatest(latest) ==
    IF latest # None THEN [outcome |-> "success", result |-> latest]
    ELSE IF HasTarget THEN [outcome |-> ErrNotFound, result |-> None]
    ELSE [outcome |-> ErrNoPosts, result |-> None]

\* the statements after the loop
AfterLoop(latest) ==
    IF HasTarget THEN [outcome |-> ErrNotFound, result |-> None]
    ELSE IF latest # None THEN [outcome |-> "success", result |-> latest]
    ELSE [outcome |-> ErrNoPosts, result |-> None]

----------------------------------------------------------------------------
(* Specification Spec: one crawl of _scrape_post *)

CrawlTargets ==
    {[target_id |-> <<>>, target_text |-> <<>>,
      target_date |-> NoDate, target_keywords |-> <<>>],
     [target_id |-> <<"p","2">>, target_text |-> <<"s","u","n">>,
      target_date |-> NoDate, target_keywords |-> <<>>],
     [target_id |-> <<>>, target_text |-> <<>>,
      target_date |-> "2024-05-01", target_keywords |-> <<Gym>>],
     [target_id |-> <<"x">>, target_text |-> <<>>,
      target_date |-> NoDate, target_keywords |-> <<Fun, Sun>>]}

Configs ==
    {[max_pages |-> m, start_at |-> s, include_locked |-> l, require_gallery |-> g,
      target_id |-> t.target_id, target_text |-> t.target_text,
      target_date |-> t.target_date, target_keywords |-> t.target_keywords] :
        m \in -1..MaxPagesCfg, s \in {0, 1}, l \in BOOLEAN, g \in BOOLEAN,
        t \in CrawlTargets}

ProfileIdle ==
    /\ pr_pc = "idle"
    /\ pr_args = <<>>
    /\ pr_result = <<>>

MainIdle ==
    /\ m_pc = "idle"
    /\ inv = <<>>
    /\ profile = NoResponse
    /\ profile_fetches = 0
    /\ poster_id = <<>>
    /\ performer = None
    /\ warnings = <<>>
    /\ stdout = <<>>
    /\ exit_code = -1

BuildIdle ==
    /\ b_pc = "idle"
    /\ b_args = <<>>
    /\ b_tags = <<>>
    /\ b_record = <<>>

FTIdle ==
    /\ ft_pc = "idle"
    /\ ft_posts = <<>>
    /\ ft_target = <<>>
    /\ ft_result = 0

Init ==
    /\ cfg \in Configs
    /\ pc = "loop"
    /\ current = cfg.start_at
    /\ pages = 0
    /\ latest_post = None
    /\ response = NoResponse
    /\ cards = <<>>
    /\ requests = <<>>
    /\ links = <<>>
    /\ find_calls = 0
    /\ matches = <<>>
    /\ passed_locked = FALSE
    /\ outcome = "running"
    /\ result = None
    /\ FTIdle
    /\ BuildIdle
    /\ ProfileIdle
    /\ MainIdle

\* the crawl ends: return or raise
Finish(resp, new_cards, end) ==
    /\ pc' = "done"
    /\ response' = resp
    /\ cards' = new_cards
    /\ outcome' = end.outcome
    /\ result' = end.result

\* one iteration of the while loop, up to the next feed request or the end
\* of the crawl: the request, the cards of the page, the match, and either
\* the return, the break, or the step to the next cursor and the loop
\* condition; when the loop is left, the statements after it
Iterate ==
    /\ pc = "loop"
    /\ LoopGuard(pages, cfg.max_pages)
    /\ \E resp \in Responses :
       \E new_cards \in {SelectSeq(resp.posts, Retained)} :
       \E match \in {IF HasTarget
                     THEN _find_target(new_cards, cfg.target_id, cfg.target_text,
                                       cfg.target_date, cfg.target_keywords)
                     ELSE 0} :
        LET err == _request(resp)
            latest == FirstSeen(latest_post, new_cards)
            next_start == _next_start_at(resp)
        IN  /\ pages' = pages + 1
            /\ requests' = Append(requests, current)
            /\ IF err # RequestOk
               THEN /\ Finish(resp, <<>>, [outcome |-> err, result |-> None])
                    /\ UNCHANGED <<current, latest_post, links, find_calls, matches,
                                   passed_locked>>
               ELSE /\ latest_post' = latest
                    /\ find_calls' = IF HasTarget THEN find_calls + 1 ELSE find_calls
                    /\ matches' = IF ~HasTarget THEN matches
                                   ELSE Append(matches, IF match # 0
                                                        THEN new_cards[match]
                                                        ELSE None)
                    /\ passed_locked' =
                          (passed_locked
                             \/ (HasTarget /\ \E i \in 1..Len(new_cards) :
                                                 new_cards[i].locked))
                    /\ IF HasTarget /\ Matched(match)
                       THEN /\ Finish(resp, new_cards,
                                     [outcome |-> "success", result |-> new_cards[match]])
                            /\ UNCHANGED <<current, links>>
                       ELSE IF ~HasTarget /\ latest # None
                       THEN /\ Finish(resp, new_cards,
                                     [outcome |-> "success", result |-> latest])
                            /\ UNCHANGED <<current, links>>
                       ELSE IF Stalled(next_start, current)
                       THEN /\ Finish(resp, new_cards, AfterLoop(latest))
                            /\ links' = Append(links, next_start)
                            /\ UNCHANGED current
                       ELSE /\ current' = next_start
                            /\ links' = Append(links, next_start)
                            /\ IF LoopGuard(pages + 1, cfg.max_pages)
                               THEN /\ response' = NoResponse
                                    /\ cards' = <<>>
                                    /\ UNCHANGED <<pc, outcome, result>>
                               ELSE Finish(resp, new_cards, AfterLoop(latest))
    /\ UNCHANGED <<cfg, ft_vars, build_vars, profile_vars, main_vars>>

\* the loop condition fails on entry: the statements after the loop
LoopExit ==
    /\ pc = "loop"
    /\ ~LoopGuard(pages, cfg.max_pages)
    /\ pc' = "done"
    /\ outcome' = AfterLoop(latest_post).outcome
    /\ result' = AfterLoop(latest_post).result
    /\ UNCHANGED <<cfg, current, pages, latest_post, response, cards, requests, links,
                   find_calls, matches, passed_locked, ft_vars, build_vars,
                   profile_vars, main_vars>>

Next == Iterate \/ LoopExit

Spec == Init /\ [][Next]_vars

----------------------------------------------------------------------------
(* Specification FindTargetSpec: one call of _find_target *)

CrawlIdle ==
    /\ pc = "idle"
    /\ cfg = <<>>
    /\ current = 0
    /\ pages = 0
    /\ latest_post = None
    /\ response = NoResponse
    /\ cards = <<>>
    /\ requests = <<>>
    /\ links = <<>>
    /\ find_calls = 0
    /\ matches = <<>>
    /\ passed_locked = FALSE
    /\ outcome = "running"
    /\ result = None

FTInit ==
    /\ ft_pc = "call"
    /\ ft_posts \in SeqsUpTo(PostPool, MaxBatch)
    /\ ft_target \in [id : TargetIds, text : TargetTexts,
                      date : TargetDates, keywords : KeywordLists]
    /\ ft_result = 0
    /\ CrawlIdle
    /\ BuildIdle
    /\ ProfileIdle
    /\ MainIdle

FindTarget ==
    /\ ft_pc = "call"
    /\ ft_result' = _find_target(ft_posts, ft_target.id, ft_target.text,
                                 ft_target.date, ft_target.keywords)
    /\ ft_pc' = "ret"
    /\ UNCHANGED <<ft_posts, ft_target, crawl_vars, build_vars,
                   profile_vars, main_vars>>

FTNext == FindTarget

FindTargetSpec == FTInit /\ [][FTNext]_vars

----------------------------------------------------------------------------
(* _extract_hashtags *)

UpperLetters == {"A","B","C","D","E","F","G","H","I","J","K","L","M",
                 "N","O","P","Q","R","S","T","U","V","W","X","Y","Z"}

\* the characters \w matches, of those the model uses
WordChars == LowerLetters \cup UpperLetters \cup Digits \cup {"_"}

\* the characters in code point order
CodeOrder ==
    <<"0","1","2","3","4","5","6","7","8","9",
      "A","B","C","D","E","F","G","H","I","J","K","L","M",
      "N","O","P","Q","R","S","T","U","V","W","X","Y","Z", "_",
      "a","b","c","d","e","f","g","h","i","j","k","l","m",
      "n","o","p","q","r","s","t","u","v","w","x","y","z">>

Ord(c) == CHOOSE i \in 1..Len(CodeOrder) : CodeOrder[i] = c

\* a <= b for two str, as Python compares them
RECURSIVE StrLeq(_, _)
StrLeq(a, b) ==
    IF a = <<>> THEN TRUE
    ELSE IF b = <<>> THEN FALSE
    ELSE IF Head(a) = Head(b) THEN StrLeq(Tail(a), Tail(b))
    ELSE Ord(Head(a)) < Ord(Head(b))

\* re.findall(r"#(\w+)", text): the groups of the matches, left to right
RECURSIVE FindHashtags(_)
FindHashtags(text) ==
    IF text = <<>> THEN <<>>
    ELSE IF Head(text) = "#" /\ Tail(text) # <<>> /\ Head(Tail(text)) \in WordChars
         THEN LET rest == DropWhile(Tail(text), WordChars)
                  word == SubSeq(Tail(text), 1, Len(Tail(text)) - Len(rest))
              IN  <<word>> \o FindHashtags(rest)
         ELSE FindHashtags(Tail(text))

\* t.strip("#")
StripHash(t) == DropTrailing(DropWhile(t, {"#"}), {"#"})

\* the set comprehension {t.strip("#") for t in re.findall(...)}
HashtagSet(text) ==
    LET found == FindHashtags(text)
    IN  {StripHash(found[i]) : i \in 1..Len(found)}

\* the lists that hold every element of S once
Orderings(S) ==
    {f \in [1..Cardinality(S) -> S] : \A x \in S : \E i \in 1..Cardinality(S) : f[i] = x}

\* sorted(tags, key=str.lower): the sort is stable, and the order in which a
\* set of str is iterated is not fixed, so tags with equal keys come out in
\* either order
SortedByLower(tags) ==
    {f \in Orderings(tags) :
        \A i \in 1..(Len(f) - 1) : StrLeq(LowerAll(f[i]), LowerAll(f[i + 1]))}

\* the lists _extract_hashtags(text) can return
_extract_hashtags(text) ==
    IF ~Truthy(text) THEN {<<>>}
    ELSE SortedByLower(HashtagSet(text))

----------------------------------------------------------------------------
(* _build_scene, _build_gallery: a dict is a function on its keys, a value *)
(* is None, a str, a list or a dict (a set of key/value pairs)             *)

VStr(s) == [kind |-> "str", v |-> s]
VList(l) == [kind |-> "list", v |-> l]
VDict(d) == [kind |-> "dict", v |-> d]

\* Python truthiness of a value
TruthyV(value) ==
    IF value = None THEN FALSE
    ELSE IF value.kind = "dict" THEN value.v # {}
    ELSE value.v # <<>>

STUDIO == VDict({<<"name", "JustForFans">>, <<"url", "https://justfor.fans">>})

DefaultTitle ==
    <<"J","u","s","t","F","o","r","F","a","n","s"," ","p","o","s","t">>

\* the ISO date as characters
DateChars(date) ==
    CASE date = "2024-05-01" -> <<"2","0","2","4","-","0","5","-","0","1">>
      [] date = "2024-06-02" -> <<"2","0","2","4","-","0","6","-","0","2">>
      [] date = "2024-07-03" -> <<"2","0","2","4","-","0","7","-","0","3">>

\* title = post.text_preview or "JustForFans post", then f"{title} ({post.date})"
Title(post) ==
    LET title == IF Truthy(post.text_preview) THEN post.text_preview
                 ELSE DefaultTitle
    IN  IF post.date # NoDate
        THEN title \o <<" ", "(">> \o DateChars(post.date) \o <<")">>
        ELSE title

\* x or None
OrNone(s) == IF Truthy(s) THEN VStr(s) ELSE None

\* [{"name": tag} for tag in tags]
TagDicts(tags) == VList([i \in 1..Len(tags) |-> VDict({<<"name", tags[i]>>})])

Dropped_OnlyNone(value) == value = None

\* v in (None, [], "")
Dropped(value) ==
    \/ value = None
    \/ value = VList(<<>>)
    \/ value = VStr(<<>>)

\* {k: v for k, v in d.items() if v not in (None, [], "")}
Filtered(d) == [k \in {k \in DOMAIN d : ~Dropped(d[k])} |-> d[k]]

_build_scene(post, url, performer_dict, tags) ==
    LET keys == {"title", "details", "date", "url", "urls", "code", "studio"}
                  \cup (IF Truthy(post.photos) THEN {"image"} ELSE {})
                  \cup (IF Truthy(tags) THEN {"tags"} ELSE {})
                  \cup (IF TruthyV(performer_dict) THEN {"performers"} ELSE {})
        scene == [k \in keys |->
                    CASE k = "title" -> VStr(Title(post))
                      [] k = "details" -> OrNone(post.full_text)
                      [] k = "date" -> IF post.date = NoDate THEN None
                                       ELSE VStr(DateChars(post.date))
                      [] k = "url" -> url
                      [] k = "urls" -> IF TruthyV(url) THEN VList(<<url>>) ELSE None
                      [] k = "code" -> IF Truthy(post.post_id_digits)
                                       THEN VStr(post.post_id_digits)
                                       ELSE OrNone(post.post_id)
                      [] k = "studio" -> STUDIO
                      [] k = "image" -> VStr(post.photos[1])
                      [] k = "tags" -> TagDicts(tags)
                      [] k = "performers" -> VList(<<performer_dict>>)]
    IN  Filtered(scene)

_build_gallery(post, url, performer_dict, tags) ==
    LET keys == {"title", "details", "date", "url", "urls", "code", "studio"}
                  \cup (IF Truthy(tags) THEN {"tags"} ELSE {})
                  \cup (IF TruthyV(performer_dict) THEN {"performers"} ELSE {})
        gallery == [k \in keys |->
                    CASE k = "title" -> VStr(Title(post))
                      [] k = "details" -> OrNone(post.full_text)
                      [] k = "date" -> IF post.date = NoDate THEN None
                                       ELSE VStr(DateChars(post.date))
                      [] k = "url" -> url
                      [] k = "urls" -> IF Truthy(post.photos)
                                       THEN VList([i \in 1..Len(post.photos) |->
                                                      VStr(post.photos[i])])
                                       ELSE None
                      [] k = "code" -> IF Truthy(post.post_id_digits)
                                       THEN VStr(post.post_id_digits)
                                       ELSE OrNone(post.post_id)
                      [] k = "studio" -> STUDIO
                      [] k = "tags" -> TagDicts(tags)
                      [] k = "performers" -> VList(<<performer_dict>>)]
    IN  Filtered(gallery)

----------------------------------------------------------------------------
(* Specification BuildSpec: one call of _build_scene or _build_gallery *)

MaxWords == 3       \* words in the text of a post given to a builder

HashFoo == <<"#","F","o","o">>
HashFooLower == <<"#","f","o","o">>
HashBar == <<"#","B","a","r">>
NoTag == <<"f","#">>

\* " ".join(words)
RECURSIVE Join(_)
Join(words) ==
    IF words = <<>> THEN <<>>
    ELSE IF Len(words) = 1 THEN words[1]
    ELSE words[1] \o <<" ">> \o Join(Tail(words))

BuildTexts == {Join(w) : w \in SeqsUpTo({HashFoo, HashFooLower, HashBar, NoTag}, MaxWords)}

\* posts with and without an id, id digits, a date, photos, an empty image url
BuildPosts ==
    {ParsedPost(id, "photo", d, text, photos, FALSE) :
        id \in {<<>>, <<"p","2">>, <<"p","x">>},
        d \in {NoDate, "2024-05-01"},
        text \in BuildTexts,
        photos \in {<<>>, <<u1, u2>>, <<<<>>>>}}

PostUrl == <<"h",":","/","b","o","b">>
BuildUrls == {None, VStr(<<>>), VStr(PostUrl)}
BuildPerformers == {None, VDict({<<"name", "Bob">>, <<"url", PostUrl>>})}

BuildInit ==
    /\ b_pc = "call"
    /\ b_args \in [builder : {"_build_scene", "_build_gallery"},
                   post : BuildPosts, url : BuildUrls, performer : BuildPerformers]
    /\ b_tags = <<>>
    /\ b_record = <<>>
    /\ FTIdle
    /\ CrawlIdle
    /\ ProfileIdle
    /\ MainIdle

Build ==
    /\ b_pc = "call"
    /\ \E tags \in _extract_hashtags(b_args.post.full_text) :
          /\ b_tags' = tags
          /\ b_record' =
                IF b_args.builder = "_build_scene"
                THEN _build_scene(b_args.post, b_args.url, b_args.performer, tags)
                ELSE _build_gallery(b_args.post, b_args.url, b_args.performer, tags)
    /\ b_pc' = "ret"
    /\ UNCHANGED <<b_args, ft_vars, crawl_vars, profile_vars, main_vars>>

BuildNext == Build

BuildSpec == BuildInit /\ [][BuildNext]_vars

----------------------------------------------------------------------------
(* URLs: a URL is None or what urlparse and parse_qs make of it, the path  *)
(* and the key/value pairs of the query; urlparse raises ValueError on a   *)
(* URL with a malformed host such as "https://[justfor.fans/bob"           *)

Url(netloc_ok, path, query) ==
    [netloc_ok |-> netloc_ok, path |-> path, query |-> query]

UrlRaises(url) == url # None /\ ~url.netloc_ok

\* qval(*keys): the first value of the first key that has one
RECURSIVE qval(_, _)
qval(query, keys) ==
    IF keys = <<>> THEN <<>>
    ELSE LET given == SelectSeq(query,
                         LAMBDA kv : kv[1] = Head(keys) /\ kv[2] # <<>>)
         IN  IF given # <<>> THEN given[1][2] ELSE qval(query, Tail(keys))

\* re.findall(r"\d+", path)
RECURSIVE DigitRuns(_)
DigitRuns(s) ==
    IF s = <<>> THEN <<>>
    ELSE IF Head(s) \in Digits
         THEN LET rest == DropWhile(s, Digits)
              IN  <<SubSeq(s, 1, Len(s) - Len(rest))>> \o DigitRuns(rest)
         ELSE DigitRuns(Tail(s))

_extract_ids_from_url_NoPostId(url) ==
    IF url = None THEN [post_id |-> <<>>, poster_id |-> <<>>]
    ELSE LET q_poster == qval(url.query, <<"poster_id", "posterid", "creator_id",
                                           "userid", "user_id">>)
             path_numbers == DigitRuns(url.path)
         IN  [post_id |-> <<>>,
              poster_id |-> IF Len(path_numbers) > 1 /\ ~Truthy(q_poster)
                            THEN path_numbers[1] ELSE q_poster]

_extract_ids_from_url(url) ==
    IF url = None THEN [post_id |-> <<>>, poster_id |-> <<>>]
    ELSE LET q_post == qval(url.query, <<"post_id", "postid", "post", "id">>)
             q_poster == qval(url.query, <<"poster_id", "posterid", "creator_id",
                                           "userid", "user_id">>)
             path_numbers == DigitRuns(url.path)
         IN  IF ~Truthy(q_post) /\ path_numbers # <<>>
             THEN [post_id |-> path_numbers[Len(path_numbers)],
                   poster_id |-> IF Len(path_numbers) > 1 /\ ~Truthy(q_poster)
                                 THEN path_numbers[1] ELSE q_poster]
             ELSE [post_id |-> q_post, poster_id |-> q_poster]

_extract_username_from_url(url) ==
    IF url = None THEN <<>>
    ELSE LET path == DropTrailing(DropWhile(url.path, {"/"}), {"/"})
         IN  IF Contains(<<"/">>, path) THEN <<>> ELSE path

\* re.sub(r"[^a-z0-9]", "", value.lower())
_normalize_key(value) ==
    SelectSeq(LowerAll(value), LAMBDA c : c \in LowerLetters \cup Digits)

\* the text before and after the first sep in entry
SplitOnce(entry, sep) ==
    LET at == CHOOSE i \in 1..Len(entry) :
                  entry[i] = sep /\ \A j \in 1..(i - 1) : entry[j] # sep
    IN  [key |-> SubSeq(entry, 1, at - 1), val |-> SubSeq(entry, at + 1, Len(entry))]

\* the entries of CONFIG.poster_id_map, as re.split(r"[,\n]", value) gives them
PosterIdMap == << <<"B","o","b",":"," ","u","9">>, <<"b","o","b","9">> >>

\* mapping.get(key, "") for mapping = _parse_poster_id_map(value): the value
\* of the last entry that sets key
RECURSIVE _parse_poster_id_map(_, _)
_parse_poster_id_map(entries, key) ==
    IF entries = <<>> THEN <<>>
    ELSE LET entry == Strip(entries[Len(entries)])
             before == SubSeq(entries, 1, Len(entries) - 1)
             sep == IF Contains(<<":">>, entry) THEN ":"
                    ELSE IF Contains(<<"=">>, entry) THEN "="
                    ELSE ""
         IN  IF sep = "" THEN _parse_poster_id_map(before, key)
             ELSE LET kv == SplitOnce(entry, sep)
                      k == _normalize_key(Strip(kv.key))
                      v == _normalize_digits(Strip(kv.val))
                  IN  IF Truthy(k) /\ Truthy(v) /\ k = key THEN v
                      ELSE _parse_poster_id_map(before, key)

\* mapping.get(normalized, "")
_poster_id_from_map(username) ==
    LET normalized == IF Truthy(username) THEN _normalize_key(username) ELSE <<>>
    IN  IF Truthy(normalized) THEN _parse_poster_id_map(PosterIdMap, normalized)
        ELSE <<>>

----------------------------------------------------------------------------
(* Profile pages: a page is the value of the first element carrying each   *)
(* data attribute (empty if there is none), the key/value occurrences of   *)
(* its raw text in order, and the name its meta and title tags give        *)

DataAttrs == <<"data-posterid", "data-poster-id", "data-poster",
               "data-userid", "data-user-id">>

\* a pattern: the key, and whether it is the bare KEY=(\d+) form
Patterns ==
    <<[key |-> "PosterID", bare |-> FALSE],
      [key |-> "poster_id", bare |-> FALSE],
      [key |-> "posterId", bare |-> FALSE],
      [key |-> "PosterID", bare |-> TRUE],
      [key |-> "poster_id", bare |-> TRUE]>>

LoosePattern == [key |-> "PosterID", bare |-> TRUE]

\* an occurrence in the text: key, optional blanks, ":" or "=", optional
\* blanks and quote (bare: "=" with the digits right behind it), digits
Matches(pattern, occ) ==
    /\ occ.key = pattern.key
    /\ pattern.bare => occ.bare

\* re.search(pattern, html): group 1 of the leftmost match, empty if none
Search(pattern, html) ==
    LET found == SelectSeq(html.text, LAMBDA occ : Matches(pattern, occ))
    IN  IF found = <<>> THEN <<>> ELSE found[1].digits

\* the first non-empty element of a list of str, empty if there is none
FirstTruthy(values) ==
    LET given == SelectSeq(values, Truthy)
    IN  IF given = <<>> THEN <<>> ELSE given[1]

_extract_poster_id_from_html(html, soup) ==
    LET by_attr == FirstTruthy([i \in 1..Len(DataAttrs) |->
                                   _normalize_digits(html.attrs[DataAttrs[i]])])
        by_pattern == FirstTruthy([i \in 1..Len(Patterns) |->
                                      Search(Patterns[i], html)])
    IN  IF soup /\ Truthy(by_attr) THEN by_attr
        ELSE IF Truthy(by_pattern) THEN by_pattern
        ELSE Search(LoosePattern, html)

DefaultName ==
    <<"J","u","s","t","F","o","r","F","a","n","s"," ",
      "p","e","r","f","o","r","m","e","r">>

\* name, and urls = [url]; the optional details, images and social links of
\* the page are left out
_extract_performer_from_profile(url, html) ==
    LET slug == _extract_username_from_url(url)
        name == IF Truthy(html.name) THEN html.name
                ELSE IF Truthy(slug)
                     THEN [i \in 1..Len(slug) |->
                              IF slug[i] = "_" THEN " " ELSE slug[i]]
                ELSE DefaultName
    IN  [name |-> name, urls |-> <<url>>]

\* what _resolve_profile(session, url) does when session.get gives resp: the
\* ScraperError of _request, or the poster id and the performer
_resolve_profile(url, resp) ==
    IF url = None
    THEN [error |-> RequestOk, poster_id |-> <<>>, performer |-> None]
    ELSE IF _request(resp) # RequestOk
    THEN [error |-> _request(resp), poster_id |-> <<>>, performer |-> None]
    ELSE LET html == resp.html
             first == _extract_poster_id_from_html(html, FALSE)
         IN  [error |-> RequestOk,
              poster_id |-> IF Truthy(first) THEN first
                            ELSE _extract_poster_id_from_html(html, TRUE),
              performer |-> _extract_performer_from_profile(url, html)]

----------------------------------------------------------------------------
(* Specification ProfileSpec: one call of _resolve_profile *)

MaxOccurrences == 2     \* key/value occurrences in the text of a profile page

\* "PosterID=22", "poster_id: 33", "posterId = '44'", "PosterID: 55"
Occurrences ==
    {[key |-> "PosterID", bare |-> TRUE, digits |-> <<"2","2">>],
     [key |-> "poster_id", bare |-> FALSE, digits |-> <<"3","3">>],
     [key |-> "posterId", bare |-> FALSE, digits |-> <<"4","4">>],
     [key |-> "PosterID", bare |-> FALSE, digits |-> <<"5","5">>]}

\* the values of a data attribute: none, one without digits, one with digits
AttrValues(attr) ==
    {<<>>, <<"n","a">>,
     CASE attr = "data-posterid" -> <<"i","d","1">>
       [] attr = "data-poster-id" -> <<"i","d","2">>
       [] attr = "data-poster" -> <<"3">>
       [] attr = "data-userid" -> <<"4">>
       [] attr = "data-user-id" -> <<"5">>}

Bob == <<"B","o","b">>

ProfilePages ==
    {[attrs |-> a, text |-> t, name |-> n] :
        a \in {f \in [{DataAttrs[i] : i \in 1..Len(DataAttrs)} ->
                         {<<>>, <<"n","a">>, <<"i","d","1">>, <<"i","d","2">>,
                          <<"3">>, <<"4">>, <<"5">>}] :
                  \A i \in 1..Len(DataAttrs) :
                      f[DataAttrs[i]] \in AttrValues(DataAttrs[i])},
        t \in SeqsUpTo(Occurrences, MaxOccurrences),
        n \in {<<>>, Bob}}

EmptyPage == [attrs |-> [k \in {DataAttrs[i] : i \in 1..Len(DataAttrs)} |-> <<>>],
              text |-> <<>>, name |-> <<>>]

\* what session.get does for a profile: it raises, or returns a status and
\* a body that is a challenge page or a profile page
ProfileResponses ==
    {[raised |-> FALSE, status_code |-> 200, just_a_moment |-> FALSE,
      cloudflare |-> FALSE, html |-> h] : h \in ProfilePages}
    \cup {[raised |-> r, status_code |-> st, just_a_moment |-> c,
           cloudflare |-> c, html |-> EmptyPage] :
            r \in BOOLEAN, st \in {200, 404}, c \in BOOLEAN}

UrlBob == Url(TRUE, <<"/","b","o","b">>, <<>>)
UrlSlug == Url(TRUE, <<"/","b","o","_","b","/">>, <<>>)

ProfileInit ==
    /\ pr_pc = "call"
    /\ pr_args \in [url : {None, UrlBob, UrlSlug}, response : ProfileResponses]
    /\ pr_result = <<>>
    /\ FTIdle
    /\ CrawlIdle
    /\ BuildIdle
    /\ MainIdle

ResolveProfile ==
    /\ pr_pc = "call"
    /\ pr_result' = _resolve_profile(pr_args.url, pr_args.response)
    /\ pr_pc' = "ret"
    /\ UNCHANGED <<pr_args, ft_vars, crawl_vars, build_vars, main_vars>>

ProfileNext == ResolveProfile

ProfileSpec == ProfileInit /\ [][ProfileNext]_vars

----------------------------------------------------------------------------
(* The invocation: main, _scrape_scene, _scrape_gallery, _scrape_performer, *)
(* _performer_search and the set-up of _scrape_post                         *)

ErrMissingConfig == "Missing required config: user_id and user_hash_4"
ErrMissingHash == "Missing required config: user_hash_4"
ErrMissingPoster == "Missing poster_id (set in config or include in URL)"
ErrNoPhotos == "Selected post does not contain photos"
ErrNoPerformerUrl == "Missing performer URL"
ErrNoPerformerName == "Missing performer name"
ErrUnsupported == "Unsupported operation"
ValueError == "ValueError"
WarnProfile == "Profile fetch failed"
WarnPosterId == "Poster ID not found"

SceneOps == {"scene-by-url", "scene-by-fragment", "scene-by-query-fragment"}
GalleryOps == {"gallery-by-url", "gallery-by-fragment"}
PerformerOps == {"performer-by-url", "performer-by-fragment"}

\* the URL as a str
UrlChars(url) ==
    <<"h", ":">> \o url.path
        \o (IF url.query = <<>> THEN <<>>
            ELSE <<"?">> \o url.query[1][2])

\* a URL or None as a value of a record
UrlValue(url) == IF url = None THEN None ELSE VStr(UrlChars(url))

\* url or getattr(CONFIG, "performer_url", "")
ProfileUrl == IF inv.url # None THEN inv.url ELSE inv.performer_url

\* PROFILE_URL_TEMPLATE.format(username=re.sub(r"\s+", "_", name.strip()))
NameUrl(name) ==
    LET spaced == SubRuns(Strip(name), Whitespace)
    IN  Url(TRUE, <<"/">> \o [i \in 1..Len(spaced) |->
                                 IF spaced[i] = " " THEN "_" ELSE spaced[i]], <<>>)

_select_scene_performer(parsed_performer, fallback_url) ==
    LET performer_url == IF inv.performer_url # None THEN inv.performer_url
                         ELSE fallback_url
    IN  IF Truthy(inv.performer_name)
        THEN VDict({<<"name", inv.performer_name>>}
                     \cup (IF performer_url # None
                           THEN {<<"url", UrlChars(performer_url)>>} ELSE {}))
        ELSE IF parsed_performer # None
        THEN VDict({<<"name", parsed_performer.name>>}
                     \cup (IF parsed_performer.urls # <<>>
                           THEN {<<"url", UrlChars(parsed_performer.urls[1])>>}
                           ELSE IF fallback_url # None
                           THEN {<<"url", UrlChars(fallback_url)>>}
                           ELSE {}))
        ELSE None

AfterProfile_ProfileOverrides(poster, resolved) ==
    IF resolved.error # RequestOk
    THEN [poster_id |-> poster, performer |-> None, warned |-> TRUE]
    ELSE [poster_id |-> IF Truthy(resolved.poster_id)
                        THEN resolved.poster_id ELSE poster,
          performer |-> resolved.performer, warned |-> FALSE]

AfterProfile_DropsPosterId(poster, resolved) ==
    IF resolved.error # RequestOk
    THEN [poster_id |-> <<>>, performer |-> None, warned |-> TRUE]
    ELSE [poster_id |-> IF ~Truthy(poster) /\ Truthy(resolved.poster_id)
                        THEN resolved.poster_id ELSE poster,
          performer |-> resolved.performer, warned |-> FALSE]

\* the try block around _resolve_profile: poster_id and performer after it,
\* and whether the except branch logged the warning
AfterProfile(poster, resolved) ==
    IF resolved.error # RequestOk
    THEN [poster_id |-> poster, performer |-> None, warned |-> TRUE]
    ELSE [poster_id |-> IF ~Truthy(poster) /\ Truthy(resolved.poster_id)
                        THEN resolved.poster_id ELSE poster,
          performer |-> resolved.performer, warned |-> FALSE]

----------------------------------------------------------------------------
(* Specification MainSpec: one invocation of the script *)

UrlBob9 == Url(TRUE, <<"/","b","o","b","9">>, <<>>)
UrlIds == Url(TRUE, <<"/","1","2","/","3","4">>, <<>>)
UrlQuery == Url(TRUE, <<"/","b","o","b">>, << <<"poster_id", <<"8">>>> >>)
UrlBad == Url(FALSE, <<"/","b","o","b">>, <<>>)
UrlPost == Url(TRUE, <<"/","b","o","b","9">>,
               << <<"id", <<"6">>>>, <<"post", <<"p","5">>>> >>)

Ops == {"scene-by-url", "scene-by-query-fragment", "gallery-by-fragment",
        "performer-by-url", "performer-by-fragment", "performer-by-name",
        "movie-by-url"}

\* args url and CONFIG.performer_url
Locations ==
    {[url |-> None, performer_url |-> None],
     [url |-> None, performer_url |-> UrlBob],
     [url |-> UrlBob, performer_url |-> None],
     [url |-> UrlBob9, performer_url |-> None],
     [url |-> UrlIds, performer_url |-> None],
     [url |-> UrlQuery, performer_url |-> None],
     [url |-> UrlPost, performer_url |-> None],
     [url |-> UrlBad, performer_url |-> None]}

\* CONFIG.user_id and CONFIG.user_hash_4
Credentials ==
    {[user_id |-> <<"u">>, user_hash_4 |-> <<"h">>],
     [user_id |-> <<>>, user_hash_4 |-> <<"h">>],
     [user_id |-> <<"u">>, user_hash_4 |-> <<>>]}

MainTargets == {t \in CrawlTargets : t.target_date = NoDate /\ t.target_keywords = <<>>}

BobLee == <<"B","o","b"," ","L","e","e">>

Invocations ==
    {[op |-> op, url |-> l.url, name |-> n,
      target_id |-> t.target_id, target_text |-> t.target_text,
      target_date |-> t.target_date, target_keywords |-> t.target_keywords,
      user_id |-> c.user_id, user_hash_4 |-> c.user_hash_4,
      poster_id |-> p, performer_url |-> l.performer_url, performer_name |-> pn,
      max_pages |-> m, start_at |-> 0, include_locked |-> FALSE] :
        op \in Ops, l \in Locations, n \in {<<>>, BobLee}, t \in MainTargets,
        c \in Credentials, p \in {<<>>, <<"7">>}, pn \in {<<>>, Bob},
        m \in {0, 1}}

\* the profile responses of an invocation: a failed fetch, a page without a
\* poster id, a page with one
MainProfileResponses ==
    {r \in ProfileResponses :
        \/ (~r.raised /\ r.status_code = 404 /\ ~r.cloudflare)
        \/ (_request(r) = RequestOk /\ r.html = EmptyPage)
        \/ (_request(r) = RequestOk /\ r.html.name = Bob
              /\ r.html.text = <<>>
              /\ \A i \in 1..Len(DataAttrs) :
                    r.html.attrs[DataAttrs[i]] =
                       (IF i = 1 THEN <<"i","d","1">> ELSE <<>>))}

MainInit ==
    /\ m_pc = "main"
    /\ inv \in {i \in Invocations :
                   /\ (i.op \notin PerformerOps \cup {"performer-by-name"}
                          => i.name = <<>>)
                   /\ (i.op \notin SceneOps \cup GalleryOps
                          => /\ i.target_id = <<>>
                             /\ i.max_pages = 1
                             /\ i.poster_id = <<>>
                             /\ i.performer_name = <<>>)}
    /\ profile = NoResponse
    /\ profile_fetches = 0
    /\ poster_id = <<>>
    /\ performer = None
    /\ warnings = <<>>
    /\ stdout = <<>>
    /\ exit_code = -1
    /\ CrawlIdle
    /\ FTIdle
    /\ BuildIdle
    /\ ProfileIdle

\* the lines of stdout: print("null") and print(json.dumps(result))
PrintedNull == [line |-> "null"]
PrintedJson(value) == [line |-> "json", value |-> value]

\* the ScraperError reaches the handler of the __main__ block
Fail(message) ==
    /\ m_pc' = "exit"
    /\ outcome' = message
    /\ stdout' = Append(stdout, PrintedNull)
    /\ exit_code' = 1

\* an exception that is not a ScraperError leaves the handler aside: the
\* interpreter prints the traceback to stderr and exits with status 1
Crash(exception) ==
    /\ m_pc' = "exit"
    /\ outcome' = exception
    /\ stdout' = stdout
    /\ exit_code' = 1

\* print(json.dumps(result)) and the end of the script
Succeed(value) ==
    /\ m_pc' = "exit"
    /\ stdout' = Append(stdout, PrintedJson(value))
    /\ exit_code' = 0

\* main with a scene or gallery op, up to the loop of _scrape_post
ScrapePost ==
    /\ m_pc = "main"
    /\ inv.op \in SceneOps \cup GalleryOps
    /\ IF ~Truthy(inv.user_id) \/ ~Truthy(inv.user_hash_4)
       THEN /\ Fail(ErrMissingConfig)
            /\ UNCHANGED <<profile, profile_fetches, poster_id, performer, warnings,
                           pc, cfg, current, pages>>
       ELSE IF UrlRaises(inv.url)
       THEN /\ Crash(ValueError)
            /\ UNCHANGED <<profile, profile_fetches, poster_id, performer, warnings,
                           pc, cfg, current, pages>>
       ELSE LET ids == _extract_ids_from_url(inv.url)
                target_id == IF Truthy(inv.target_id) THEN inv.target_id
                             ELSE ids.post_id
                from_url == IF Truthy(inv.poster_id) THEN inv.poster_id
                            ELSE ids.poster_id
                username == _extract_username_from_url(ProfileUrl)
                from_map == IF ~Truthy(from_url) /\ Truthy(username)
                            THEN _poster_id_from_map(username) ELSE from_url
                fetch == /\ ProfileUrl # None
                         /\ (~Truthy(from_map) \/ ~Truthy(inv.performer_name))
            IN  \E resp \in IF fetch THEN MainProfileResponses ELSE {NoResponse} :
                  LET after == IF fetch
                               THEN AfterProfile(from_map,
                                                 _resolve_profile(ProfileUrl, resp))
                               ELSE [poster_id |-> from_map, performer |-> None,
                                     warned |-> FALSE]
                      warned == IF after.warned THEN <<WarnProfile>> ELSE <<>>
                  IN  /\ profile' = resp
                      /\ profile_fetches' = IF fetch THEN 1 ELSE 0
                      /\ poster_id' = after.poster_id
                      /\ performer' = after.performer
                      /\ IF ~Truthy(after.poster_id)
                         THEN /\ warnings' = warned \o <<WarnPosterId>>
                              /\ Fail(ErrMissingPoster)
                              /\ UNCHANGED <<pc, cfg, current, pages>>
                         ELSE /\ warnings' = warned
                              /\ m_pc' = "crawl"
                              /\ pc' = "loop"
                              /\ cfg' = [max_pages |-> inv.max_pages,
                                         start_at |-> inv.start_at,
                                         include_locked |-> inv.include_locked,
                                         require_gallery |-> inv.op \in GalleryOps,
                                         target_id |-> target_id,
                                         target_text |-> inv.target_text,
                                         target_date |-> inv.target_date,
                                         target_keywords |-> inv.target_keywords]
                              /\ current' = inv.start_at
                              /\ pages' = 0
                              /\ UNCHANGED <<outcome, stdout, exit_code>>
    /\ UNCHANGED <<inv, latest_post, response, cards, requests, links, find_calls, matches,
                   passed_locked, result, ft_vars, build_vars, profile_vars>>

\* _scrape_post has returned or raised: the rest of _scrape_scene or
\* _scrape_gallery, and of main
Return ==
    /\ m_pc = "crawl"
    /\ pc = "done"
    /\ IF outcome # "success" THEN Fail(outcome)
       ELSE IF inv.op \in GalleryOps /\ ~Truthy(result.photos) THEN Fail(ErrNoPhotos)
       ELSE \E tags \in _extract_hashtags(result.full_text) :
               LET payload == _select_scene_performer(performer, ProfileUrl)
                   url == UrlValue(ProfileUrl)
               IN  /\ Succeed(IF inv.op \in GalleryOps
                              THEN _build_gallery(result, url, payload, tags)
                              ELSE _build_scene(result, url, payload, tags))
                   /\ UNCHANGED outcome
    /\ UNCHANGED <<inv, profile, profile_fetches, poster_id, performer, warnings,
                   pc, cfg, current, pages, latest_post, response, cards, requests, links,
                   find_calls, matches, passed_locked, result,
                   ft_vars, build_vars, profile_vars>>

\* main with a performer-by-url or performer-by-fragment op: _scrape_performer
ScrapePerformer ==
    /\ m_pc = "main"
    /\ inv.op \in PerformerOps
    /\ LET url == IF inv.url = None /\ Truthy(inv.name) THEN NameUrl(inv.name)
                  ELSE inv.url
       IN  IF ~Truthy(inv.user_hash_4)
           THEN Fail(ErrMissingHash) /\ UNCHANGED <<profile, profile_fetches>>
           ELSE IF url = None
           THEN Fail(ErrNoPerformerUrl) /\ UNCHANGED <<profile, profile_fetches>>
           ELSE \E resp \in {r \in MainProfileResponses :
                                UrlRaises(url) => _request(r) # RequestOk} :
                   /\ profile' = resp
                   /\ profile_fetches' = 1
                   /\ IF _request(resp) # RequestOk THEN Fail(_request(resp))
                      ELSE /\ Succeed(_extract_performer_from_profile(url, resp.html))
                           /\ UNCHANGED outcome
    /\ UNCHANGED <<inv, poster_id, performer, warnings,
                   pc, cfg, current, pages, latest_post, response, cards, requests, links,
                   find_calls, matches, passed_locked, result,
                   ft_vars, build_vars, profile_vars>>

\* main with the performer-by-name op: _performer_search
PerformerSearch ==
    /\ m_pc = "main"
    /\ inv.op = "performer-by-name"
    /\ IF ~Truthy(inv.name) THEN Fail(ErrNoPerformerName)
       ELSE /\ Succeed(<<[name |-> inv.name, url |-> NameUrl(inv.name)]>>)
            /\ UNCHANGED outcome
    /\ UNCHANGED <<inv, profile, profile_fetches, poster_id, performer, warnings,
                   pc, cfg, current, pages, latest_post, response, cards, requests, links,
                   find_calls, matches, passed_locked, result,
                   ft_vars, build_vars, profile_vars>>

\* main with any other op
Unsupported ==
    /\ m_pc = "main"
    /\ inv.op \notin SceneOps \cup GalleryOps \cup PerformerOps \cup {"performer-by-name"}
    /\ Fail(ErrUnsupported)
    /\ UNCHANGED <<inv, profile, profile_fetches, poster_id, performer, warnings,
                   pc, cfg, current, pages, latest_post, response, cards, requests, links,
                   find_calls, matches, passed_locked, result,
                   ft_vars, build_vars, profile_vars>>

MainNext ==
    \/ ScrapePost
    \/ Iterate
    \/ LoopExit
    \/ Return
    \/ ScrapePerformer
    \/ PerformerSearch
    \/ Unsupported

MainSpec == MainInit /\ [][MainNext]_vars

----------------------------------------------------------------------------
(* Properties of _find_target *)

FTDigits == _normalize_digits(ft_target.id)
FTIdHits == {i \in 1..Len(ft_posts) : ft_posts[i].post_id_digits = FTDigits}
FTDateHits == {i \in 1..Len(ft_posts) : ft_posts[i].date = ft_target.date}
FTScore(i) == KeywordScore(ft_posts[i], ft_target.keywords)
FTIdRuleSelects == Truthy(FTDigits) /\ FTIdHits # {}
Min(S) == CHOOSE x \in S : \A y \in S : x <= y

\* C1: when the target id has digits and no post of the batch has these
\* digits, the result is None, whatever the date, text and keywords are.
C1_NoFallThroughAfterId ==
    (ft_pc = "ret" /\ Truthy(FTDigits) /\ FTIdHits = {}) => ft_result = 0

\* C2: when the target id has digits and some post of the batch has these
\* digits, the result is the first such post in batch order, whatever the
\* date, text and keywords are.
C2_IdMatchFirst ==
    (ft_pc = "ret" /\ Truthy(FTDigits) /\ FTIdHits # {})
        => ft_result = Min(FTIdHits)

\* an id match at position 2 wins over position 1, which has the target
\* date, contains the target text and a keyword
C2_Witness ==
    /\ ft_pc = "ret"
    /\ Truthy(FTDigits)
    /\ Len(ft_posts) = 2
    /\ FTIdHits = {2}
    /\ ft_posts[1].date = ft_target.date
    /\ Truthy(_normalize_text(ft_target.text))
    /\ Contains(_normalize_text(ft_target.text), Haystack(ft_posts[1]))
    /\ Truthy(ft_target.keywords)
    /\ FTScore(1) > FTScore(2)
    /\ ft_result = 2

\* C3: when the date is set, the id rule selects nothing and no post has the
\* date, the result is None, whatever the text and keywords are.
C3_DateMissIsFinal ==
    (ft_pc = "ret" /\ ft_target.date # NoDate /\ ~FTIdRuleSelects
        /\ FTDateHits = {})
        => ft_result = 0

\* no post has the date, yet a post contains the target text and every keyword
C3_Witness ==
    /\ ft_pc = "ret"
    /\ ft_target.date # NoDate
    /\ ~FTIdRuleSelects
    /\ FTDateHits = {}
    /\ ft_posts # <<>>
    /\ Truthy(_normalize_text(ft_target.text))
    /\ Len(ft_target.keywords) = MaxKeywords
    /\ \E i \in 1..Len(ft_posts) :
          /\ Contains(_normalize_text(ft_target.text), Haystack(ft_posts[i]))
          /\ FTScore(i) = Len(ft_target.keywords)
    /\ ft_result = 0

\* C4: when the date is set, the id rule selects nothing and some post has
\* the date, the result is the earliest of the posts with that date whose
\* keyword score is maximal among them (the first of them when there are no
\* keywords or all score zero); a post with another date is never returned.
C4_DateThenBestScore ==
    (ft_pc = "ret" /\ ft_target.date # NoDate /\ ~FTIdRuleSelects
        /\ FTDateHits # {})
        => /\ ft_result \in FTDateHits
           /\ ft_result = Min({i \in FTDateHits :
                                 \A j \in FTDateHits : FTScore(j) <= FTScore(i)})
           /\ (~Truthy(ft_target.keywords) => ft_result = Min(FTDateHits))
           /\ ((\A j \in FTDateHits : FTScore(j) = 0)
                  => ft_result = Min(FTDateHits))

\* the first post has another date and holds a keyword; of the two posts
\* with the date the later one outscores the earlier one and is returned
C4_Witness ==
    /\ ft_pc = "ret"
    /\ ft_target.date # NoDate
    /\ ~FTIdRuleSelects
    /\ FTDateHits = {2, 3}
    /\ FTScore(1) > FTScore(2)
    /\ FTScore(3) > FTScore(2)
    /\ ft_result = 3

----------------------------------------------------------------------------
(* Properties of the crawl *)

Fetched == Len(requests)
LastCursor == requests[Len(requests)]
FetchErrors == {ErrRequestFailed, ErrStatus, ErrChallenge}
Max0(n) == IF n < 0 THEN 0 ELSE n

\* a feed fetch failure: transport error, status >= 400 or challenge body
FetchFailure(resp) ==
    \/ resp.raised
    \/ resp.status_code >= 400
    \/ (resp.just_a_moment /\ resp.cloudflare)

\* the last page was parsed and its next-page link is absent or does not
\* advance past the cursor the page was requested with
LinkStalls ==
    /\ response # NoResponse
    /\ ~FetchFailure(response)
    /\ \/ ~response.link.present
       \/ response.link.start_at = NoStart
       \/ response.link.start_at <= LastCursor

\* the match of the last batch, 0 when there was none or no batch
LastMatch ==
    IF response = NoResponse \/ FetchFailure(response) THEN 0
    ELSE _find_target(cards, cfg.target_id, cfg.target_text,
                      cfg.target_date, cfg.target_keywords)

\* a post survives the locked filter and the gallery filter
Survives(post) ==
    /\ (post.locked => cfg.include_locked)
    /\ (cfg.require_gallery =>
           \/ post.post_type = "photo"
           \/ (post.post_type # "video" /\ post.photos # <<>>))

\* C5: after a page that yields no match and whose next-page link is absent
\* or has a cursor <= the current cursor, no further page is fetched, also
\* when fewer than max_pages pages were visited, and the crawl ends with the
\* not-found error (a target is set) or the no-posts error (none is set).
C5_StalledCursorEndsCrawl ==
    /\ (pc = "loop" /\ requests # <<>>) => current > LastCursor
    /\ (LinkStalls /\ outcome # "success")
          => /\ pc = "done"
             /\ ~ENABLED Next
             /\ outcome = (IF HasTarget THEN ErrNotFound ELSE ErrNoPosts)

\* a link that points back ends the crawl before max_pages is reached
C5_Witness ==
    /\ pc = "done"
    /\ Fetched < cfg.max_pages
    /\ response.link.present
    /\ response.link.start_at # NoStart
    /\ response.link.start_at <= LastCursor
    /\ response.posts # <<>>
    /\ outcome = ErrNotFound

\* C6: every crawl terminates and issues at most max_pages feed requests
\* (none when max_pages <= 0), whatever the pages and their links are: a
\* crawl that has not ended can take a step, and every step ends it or
\* raises pages, which never exceeds max_pages.
C6_TerminatesWithinMaxPages ==
    /\ [](/\ Fetched <= Max0(cfg.max_pages)
          /\ pages = Fetched
          /\ (cfg.max_pages <= 0 => Fetched = 0)
          /\ (pc = "done" \/ ENABLED Next))
    /\ [][pc' = "done" \/ (pages' = pages + 1 /\ pages' <= cfg.max_pages)]_vars

\* the page bound, not the cursor, ends a crawl over advancing links
C6_Witness ==
    /\ pc = "done"
    /\ cfg.max_pages = MaxPagesCfg
    /\ Fetched = cfg.max_pages
    /\ ~FetchFailure(response)
    /\ response.link.present
    /\ response.link.start_at > LastCursor
    /\ outcome = ErrNotFound

\* C7: with no target field set, _find_target is never called, pages without
\* a retained post are skipped, and the crawl succeeds with the first post in
\* document order, on the earliest page holding one, that survives the locked
\* and gallery filters; latest_post, once set, is never replaced.
C7_LatestFallback ==
    /\ [](~HasTarget =>
            /\ find_calls = 0
            /\ (pc = "loop" => latest_post = None)
            /\ (outcome = "success" =>
                  LET first == Min({i \in 1..Len(response.posts) :
                                       Survives(response.posts[i])})
                  IN  /\ \E i \in 1..Len(response.posts) : Survives(response.posts[i])
                      /\ result = response.posts[first]
                      /\ latest_post = result)
            /\ ((pc = "done" /\ outcome # "success") => latest_post = None))
    /\ [][latest_post # None => latest_post' = latest_post]_vars

\* the second page gives the fallback, and its first card was filtered out
C7_Witness ==
    /\ ~HasTarget
    /\ outcome = "success"
    /\ Fetched = 2
    /\ Len(response.posts) = 2
    /\ ~Survives(response.posts[1])
    /\ result = response.posts[2]

\* C8: a feed fetch failure aborts the crawl at once: no further request, no
\* post returned, also when latest_post was recorded on an earlier page.
C8_FetchFailureAborts ==
    /\ FetchFailure(response)
          => /\ pc = "done"
             /\ ~ENABLED Next
             /\ outcome \in FetchErrors
             /\ result = None
    /\ outcome \in FetchErrors => FetchFailure(response)
    /\ \A i, j \in 1..Fetched : requests[i] = requests[j] => i = j

\* the second request fails after the first page gave a first post seen
C8_Witness ==
    /\ FetchFailure(response)
    /\ Fetched = 2
    /\ latest_post # None
    /\ outcome = ErrStatus
    /\ result = None

\* the loop ended: page bound reached or cursor stalled
LoopEnded ==
    /\ pc = "done"
    /\ ~FetchFailure(response)
    /\ (Fetched >= cfg.max_pages \/ LinkStalls)

C9_OutcomeConditions ==
    /\ (outcome = "success") = (result # None)
    /\ (outcome = ErrNotFound) = (LoopEnded /\ HasTarget /\ LastMatch = 0)
    /\ (outcome = ErrNoPosts) = (LoopEnded /\ ~HasTarget /\ latest_post = None)
    /\ (HasTarget /\ outcome = "success")
          => (LastMatch # 0 /\ result = cards[LastMatch])

\* C9 as stated: a crawl ends in exactly one of three outcomes, success with
\* a post, the not-found error (iff the loop ended without a match and a
\* target field is set) or the no-posts error (iff the loop ended with no
\* retained post and no target field set); with a target field set the first
\* post seen is never the result.
C9_ThreeOutcomes ==
    pc = "done"
        => /\ outcome \in {"success", ErrNotFound, ErrNoPosts}
           /\ C9_OutcomeConditions

\* C9 amended: a crawl ends in exactly one of four outcomes, the three above
\* or the error of a failed feed fetch (iff a feed fetch failed).
C9_FourOutcomes ==
    pc = "done"
        => /\ outcome \in {"success", ErrNotFound, ErrNoPosts} \cup FetchErrors
           /\ (outcome \in FetchErrors) = FetchFailure(response)
           /\ C9_OutcomeConditions

\* a target is set, a first post seen exists, and the crawl ends not found
C9_Witness ==
    /\ pc = "done"
    /\ HasTarget
    /\ latest_post # None
    /\ Fetched = 2
    /\ outcome = ErrNotFound
    /\ result = None

\* C10: with include_locked false no locked post is retained: none is given
\* to _find_target, recorded as latest_post or returned; with include_locked
\* true a locked post is retained like any other post.
C10_LockedPosts ==
    /\ ~cfg.include_locked
          => /\ ~passed_locked
             /\ \A i \in 1..Len(cards) : ~cards[i].locked
             /\ (latest_post # None => ~latest_post.locked)
             /\ (result # None => ~result.locked)
    /\ (cfg.include_locked /\ response # NoResponse /\ ~FetchFailure(response))
          => cards = SelectSeq(response.posts,
                               LAMBDA p : cfg.require_gallery
                                             => _is_gallery_candidate(p))

\* the locked first card has the target digits; the unlocked second one is returned
C10_Witness ==
    /\ ~cfg.include_locked
    /\ outcome = "success"
    /\ Len(response.posts) = 2
    /\ response.posts[1].locked
    /\ response.posts[1].post_id_digits = _normalize_digits(cfg.target_id)
    /\ result = response.posts[2]
    /\ cards = <<result>>

\* the gallery rule of the claims: kind photo, or a kind other than video
\* with at least one photo
PhotoBearing(post) ==
    \/ post.post_type = "photo"
    \/ (post.post_type # "video" /\ post.photos # <<>>)

\* C11: in a gallery crawl (require_gallery true) every retained post is of
\* kind photo, or of a kind other than video with at least one photo; a video
\* post is never a gallery candidate, never the first post seen and never
\* returned, also when it has photos and matches the target.
C11_GalleryNeverVideo ==
    cfg.require_gallery
        => /\ \A i \in 1..Len(cards) : PhotoBearing(cards[i])
           /\ \A i \in 1..Len(response.posts) :
                 response.posts[i].post_type = "video"
                    => ~_is_gallery_candidate(response.posts[i])
           /\ (latest_post # None
                  => PhotoBearing(latest_post) /\ latest_post.post_type # "video")
           /\ (result # None => PhotoBearing(result) /\ result.post_type # "video")

\* the first card is a video with a photo that the keywords match best; the
\* gallery crawl passes over it and returns the second card
C11_Witness ==
    /\ cfg.require_gallery
    /\ outcome = "success"
    /\ Len(response.posts) = 2
    /\ response.posts[1].post_type = "video"
    /\ response.posts[1].photos # <<>>
    /\ KeywordScore(response.posts[1], cfg.target_keywords) = 2
    /\ result = response.posts[2]
    /\ cards = <<result>>

----------------------------------------------------------------------------
(* Properties of _find_target: free text and keywords *)

FTTextNorm == _normalize_text(ft_target.text)
FTTextHits == {i \in 1..Len(ft_posts) :
                  Contains(FTTextNorm, Haystack(ft_posts[i]))}

\* C13: with no identifier digits and no date, and a normalized target text
\* that is not empty, the result is the first post in batch order whose
\* normalized text contains the normalized target text, whenever there is
\* one, whatever the keyword scores of the posts are.
C13_TextRuleFirstContaining ==
    (/\ ft_pc = "ret"
     /\ ~Truthy(FTDigits)
     /\ ft_target.date = NoDate
     /\ Truthy(FTTextNorm)
     /\ FTTextHits # {})
        => ft_result = Min(FTTextHits)

\* "GYM_fun" is contained in the second and third post; the first post has
\* the better keyword score and the second is returned
C13_Witness ==
    /\ ft_pc = "ret"
    /\ ~Truthy(FTDigits)
    /\ ft_target.date = NoDate
    /\ ft_target.text = <<"G","Y","M","_","f","u","n">>
    /\ FTTextHits = {2, 3}
    /\ FTScore(1) > FTScore(2)
    /\ ft_result = 2

\* C14: when resolution reaches keyword scoring (no identifier match, no
\* date, no free-text match) with a keyword list that is not empty, the
\* result is the earliest post with the maximal score if that score is
\* greater than zero, and no match if every post scores zero; a post that
\* contains none of the keywords is never returned by this rule.
C14_KeywordRuleBestPositive ==
    (/\ ft_pc = "ret"
     /\ Truthy(ft_target.keywords)
     /\ ft_target.date = NoDate
     /\ ~FTIdRuleSelects
     /\ (~Truthy(FTTextNorm) \/ FTTextHits = {}))
        => LET score == [i \in 1..Len(ft_posts) |-> FTScore(i)]
               scorers == {i \in 1..Len(ft_posts) : score[i] > 0}
               top == {i \in scorers : \A j \in scorers : score[j] <= score[i]}
           IN  /\ scorers # {} => ft_result = Min(top)
               /\ scorers = {} => ft_result = 0
               /\ ft_result # 0 => score[ft_result] > 0

\* the first post scores zero, the second and third tie at two, the free
\* text matches no post: the second is returned
C14_Witness ==
    /\ ft_pc = "ret"
    /\ ~Truthy(FTDigits)
    /\ ft_target.date = NoDate
    /\ Truthy(FTTextNorm)
    /\ FTTextHits = {}
    /\ Len(ft_posts) = 3
    /\ FTScore(1) = 0
    /\ FTScore(2) = 2
    /\ FTScore(3) = 2
    /\ ft_result = 2

\* the keywords a list is extended with
AddedKeywords == {Fun, Sun, Gym}
FTHas(i, kw) == Contains(kw, Haystack(ft_posts[i]))
FTScoreWith(i, kw) == KeywordScore(ft_posts[i], Append(ft_target.keywords, kw))
FTStrictTop(i) == \A j \in 1..Len(ft_posts) : j # i => FTScore(j) < FTScore(i)

\* the call was decided by keyword scoring alone: no id, text or date given
FTKeywordsOnly ==
    /\ ft_pc = "ret"
    /\ ft_target.id = <<>>
    /\ ft_target.text = <<>>
    /\ ft_target.date = NoDate

\* C19: keyword scoring is monotonic: appending to the keyword list a keyword
\* that a post's normalized text contains raises that post's score by exactly
\* one, raises no other post's score by more than one, and appending any
\* keyword lowers no score; so a strict top scorer that contains the added
\* keyword is still the post that keyword scoring returns.
C19_KeywordScoreMonotonic ==
    FTKeywordsOnly =>
        \A kw \in AddedKeywords :
            \A i \in 1..Len(ft_posts) :
                /\ FTHas(i, kw) => FTScoreWith(i, kw) = FTScore(i) + 1
                /\ FTScoreWith(i, kw) >= FTScore(i)
                /\ FTScoreWith(i, kw) <= FTScore(i) + 1
                /\ (FTStrictTop(i) /\ FTHas(i, kw))
                      => /\ (FTScore(i) > 0 => ft_result = i)
                         /\ KeywordRule(ft_posts,
                                        Append(ft_target.keywords, kw)) = i

\* keyword scoring returned the second post, the strict top scorer; a keyword
\* already in the list is in its text, and so is one that the first post has too
C19_Witness ==
    /\ FTKeywordsOnly
    /\ Len(ft_posts) >= 2
    /\ ft_result = 2
    /\ FTStrictTop(2)
    /\ \E k \in 1..Len(ft_target.keywords) : FTHas(2, ft_target.keywords[k])
    /\ \E kw \in AddedKeywords : FTHas(2, kw) /\ FTHas(1, kw)

CfgDigits == _normalize_digits(cfg.target_id)

\* C20: when the target id has digits the crawl goes from page to page until
\* a post with equal post_id_digits is found: a crawl that is still running
\* has seen no such post, and every post a crawl returns under an id target
\* is the first retained post of its page with post_id_digits equal to the
\* target digits, whatever text, date or keywords were also given.
C20_IdTargetReturnsIdMatch ==
    Truthy(CfgDigits)
        => /\ (outcome = "success"
                 => /\ result.post_id_digits = CfgDigits
                    /\ result = cards[IdRule(cards, CfgDigits)])
           /\ (outcome = ErrNotFound
                 => \A i \in 1..Len(cards) : cards[i].post_id_digits # CfgDigits)

----------------------------------------------------------------------------
(* Properties of the record builders *)

RecordKeys == {"title", "details", "date", "url", "urls", "code", "studio",
               "image", "tags", "performers"}

\* null, the empty string or the empty list
EmptyValue(value) ==
    \/ value = None
    \/ (value.kind \in {"str", "list"} /\ Len(value.v) = 0)

\* C16: a record built by _build_scene or _build_gallery never holds, for any
\* of the keys title, details, date, url, urls, code, studio, image, tags and
\* performers, a value that is null, an empty string or an empty list: for
\* every post and every url and performer argument a key whose value would
\* be empty is left out of the record.
C16_NoEmptyValues ==
    b_pc = "ret"
        => /\ DOMAIN b_record \subseteq RecordKeys
           /\ \A k \in DOMAIN b_record : ~EmptyValue(b_record[k])
           /\ ("details" \in DOMAIN b_record) = (b_args.post.full_text # <<>>)
           /\ ("date" \in DOMAIN b_record) = (b_args.post.date # NoDate)
           /\ ("code" \in DOMAIN b_record) = (b_args.post.post_id # <<>>)
           /\ ("url" \in DOMAIN b_record) = TruthyV(b_args.url)
           /\ ("tags" \in DOMAIN b_record) = (b_tags # <<>>)
           /\ ("performers" \in DOMAIN b_record) = (b_args.performer # None)

\* a post with empty text, no date, no id and an image with an empty address,
\* built with an empty url and no performer: only title and studio are left
C16_Witness ==
    /\ b_pc = "ret"
    /\ b_args.builder = "_build_scene"
    /\ b_args.post.full_text = <<>>
    /\ b_args.post.date = NoDate
    /\ b_args.post.post_id = <<>>
    /\ b_args.post.photos = <<<<>>>>
    /\ b_args.url = VStr(<<>>)
    /\ b_args.performer = None
    /\ DOMAIN b_record = {"title", "studio"}
    /\ b_record["title"] = VStr(DefaultTitle)

FooFooBar == Join(<<HashFoo, HashFooLower, HashBar>>)

\* C17: _extract_hashtags removes duplicates and sorts without regard to
\* case: the list returned never holds two tags that are equal when
\* lowercased, it is ordered by lowercased value, and for the text
\* "#Foo #foo #Bar" it is ["Bar", "Foo"].
C17_HashtagsFoldCase ==
    b_pc = "ret"
        => /\ \A i, j \in 1..Len(b_tags) :
                 LowerAll(b_tags[i]) = LowerAll(b_tags[j]) => i = j
           /\ \A i \in 1..(Len(b_tags) - 1) :
                 StrLeq(LowerAll(b_tags[i]), LowerAll(b_tags[i + 1]))
           /\ b_args.post.full_text = FooFooBar
                 => b_tags = <<<<"B","a","r">>, <<"F","o","o">>>>

----------------------------------------------------------------------------
(* Properties of profile resolution *)

PrHtml == pr_args.response.html
PrFetched == pr_args.url # None /\ ~FetchFailure(pr_args.response)

\* the digits of the first data attribute, in the order of the list, that has any
PrAttrId ==
    LET with_digits == SelectSeq(DataAttrs,
                           LAMBDA a : _normalize_digits(PrHtml.attrs[a]) # <<>>)
    IN  IF with_digits = <<>> THEN <<>>
        ELSE _normalize_digits(PrHtml.attrs[with_digits[1]])

\* the match of the first key/value pattern, in the order of the list, that has one
PrPatternId ==
    LET matching == SelectSeq(Patterns, LAMBDA p : Search(p, PrHtml) # <<>>)
    IN  IF matching = <<>> THEN <<>> ELSE Search(matching[1], PrHtml)

\* C18: profile resolution takes the poster id from the first strategy that
\* gives one: (1) the data attributes data-posterid, data-poster-id,
\* data-poster, data-userid, data-user-id, (2) the key/value patterns over
\* the page text, (3) the loose PosterID= pattern; so for a page with a data
\* attribute with digits and a different PosterID in its text,
\* _resolve_profile returns the value of the data attribute.
C18_DataAttributeFirst ==
    (pr_pc = "ret" /\ PrFetched)
        => pr_result.poster_id =
              (IF PrAttrId # <<>> THEN PrAttrId
               ELSE IF PrPatternId # <<>> THEN PrPatternId
               ELSE Search(LoosePattern, PrHtml))

----------------------------------------------------------------------------
(* Properties of the invocation *)

PostOp == inv.op \in SceneOps \cup GalleryOps

\* the up-front profile fetch of _scrape_post was made and failed
ProfileFailed == PostOp /\ profile_fetches = 1 /\ FetchFailure(profile)

\* the poster id that configuration, URL and username map give, in that order
GivenPosterId ==
    LET in_url == _extract_ids_from_url(inv.url).poster_id
        in_map == _poster_id_from_map(_extract_username_from_url(ProfileUrl))
    IN  IF inv.poster_id # <<>> THEN inv.poster_id
        ELSE IF in_url # <<>> THEN in_url
        ELSE in_map

\* the loop of _scrape_post was entered
CrawlRan == m_pc = "crawl" \/ (m_pc = "exit" /\ cfg # <<>>)

\* C12: a failure of the up-front profile fetch inside _scrape_post is not
\* fatal: it is logged, the performer is treated as absent, and with a poster
\* id from the configuration, the URL or the username map the feed crawl
\* still runs; the invocation then fails with a fetch error only if a feed
\* fetch failed.
C12_ProfileFailureNotFatal ==
    ProfileFailed
        => /\ warnings # <<>> /\ warnings[1] = WarnProfile
           /\ performer = None
           /\ poster_id = GivenPosterId
           /\ (GivenPosterId # <<>> => CrawlRan)
           /\ (GivenPosterId = <<>> => outcome = ErrMissingPoster /\ ~CrawlRan)
           /\ (outcome \in FetchErrors => CrawlRan /\ FetchFailure(response))

\* the profile fetch failed, the poster id of the username map was used, the
\* feed gave a post and the scene was printed, without performers
C12_Witness ==
    /\ ProfileFailed
    /\ inv.poster_id = <<>>
    /\ poster_id = <<"9">>
    /\ Fetched = 1
    /\ exit_code = 0
    /\ Len(stdout) = 1
    /\ stdout[1].line = "json"
    /\ "performers" \notin DOMAIN stdout[1].value
    /\ "title" \in DOMAIN stdout[1].value

\* C15: every invocation ends in exactly one of two ways: it prints the JSON
\* result and exits with code zero, or, on any failure, it prints the literal
\* null and exits with a code other than zero; nothing is printed before, and
\* no failure ends the invocation without null on stdout.
C15_JsonOrNull ==
    /\ m_pc # "exit" => (stdout = <<>> /\ exit_code = -1)
    /\ m_pc = "exit"
          => \/ (exit_code = 0 /\ Len(stdout) = 1 /\ stdout[1].line = "json")
             \/ (exit_code > 0 /\ stdout = <<PrintedNull>>)

----------------------------------------------------------------------------
(* Properties of pagination and of matching page by page *)

\* C21: pagination is sequential and never revisits a page: the first feed
\* fetch uses the configured start_at, each later fetch uses exactly the
\* cursor that _next_start_at read from the page fetched just before it, the
\* next fetch of a running crawl will use the cursor read last, and the
\* cursors of the successive fetches are strictly increasing.
C21_SequentialPagination ==
    /\ requests # <<>> => requests[1] = cfg.start_at
    /\ Len(links) \in {Fetched - 1, Fetched} \cap Nat
    /\ \A i \in 2..Fetched :
          /\ requests[i] = links[i - 1]
          /\ requests[i] > requests[i - 1]
    /\ pc = "loop"
          => /\ Len(links) = Fetched
             /\ current = (IF links = <<>> THEN cfg.start_at
                           ELSE links[Len(links)])

\* a crawl from cursor 1 whose first page links to cursor 3 and whose second
\* page links back to cursor 2: two fetches, at 1 and at 3, and no third
C21_Witness ==
    /\ pc = "done"
    /\ cfg.start_at = 1
    /\ requests = <<1, 3>>
    /\ links = <<3, 2>>
    /\ outcome = ErrNotFound

\* the free-text rule was tried, or skipped for a text without a letter or
\* digit, and gave no post
FTTextMiss ==
    /\ ft_target.text # <<>>
    /\ (Truthy(FTTextNorm) => FTTextHits = {})

\* C22: a free-text rule that yields nothing falls through to keyword
\* scoring: with no identifier digits and no date, a target text that is not
\* empty and that no post contains, and a keyword list that is not empty, the
\* result is that of keyword scoring, the earliest post with the top score
\* when that score is greater than zero and no match otherwise.
C22_TextMissFallsToKeywords ==
    (/\ ft_pc = "ret"
     /\ ~Truthy(FTDigits)
     /\ ft_target.date = NoDate
     /\ FTTextMiss
     /\ Truthy(ft_target.keywords))
        => /\ ft_result = KeywordRule(ft_posts, ft_target.keywords)
           /\ \A i \in 1..Len(ft_posts) :
                 FTScore(i) > 0
                    => /\ ft_result # 0
                       /\ FTScore(ft_result) >= FTScore(i)
                       /\ (FTScore(ft_result) = FTScore(i) => ft_result <= i)
           /\ ft_result # 0 => FTScore(ft_result) > 0

\* no post contains "sun"; the second post holds both keywords and is
\* returned, although the target id, without digits, names no post
C22_Witness ==
    /\ ft_pc = "ret"
    /\ ft_target.id = <<"x">>
    /\ ft_target.date = NoDate
    /\ ft_target.text = <<"s","u","n">>
    /\ FTTextHits = {}
    /\ Len(ft_posts) = 2
    /\ FTScore(1) = 0
    /\ FTScore(2) = 2
    /\ ft_result = 2

\* C23: with a target field set, matching is decided page by page: every
\* page fetched calls _find_target once on its retained batch, every call
\* but the last returned no post, and a call that returns a post ends the
\* crawl on that page, with that post, which is in the batch of the last
\* page fetched; no later page is fetched, so no post of a later page, also
\* one with a higher keyword score, is returned over that match.
C23_EarliestMatchingPage ==
    HasTarget
        => /\ Len(matches) = find_calls
           /\ find_calls = (IF FetchFailure(response) THEN Fetched - 1 ELSE Fetched)
           /\ \A i \in 1..(Len(matches) - 1) : matches[i] = None
           /\ (matches # <<>> /\ matches[Len(matches)] # None)
                 => /\ pc = "done"
                    /\ ~ENABLED Next
                    /\ outcome = "success"
                    /\ result = matches[Len(matches)]
                    /\ LastMatch # 0
                    /\ result = cards[LastMatch]
                    /\ \E i \in 1..Len(response.posts) : response.posts[i] = result
           /\ outcome = "success"
                 => (matches # <<>> /\ result = matches[Len(matches)])
           /\ pc = "loop" => \A i \in 1..Len(matches) : matches[i] = None

\* the first page gives no match; the second page gives a post that holds
\* one of the two keywords and the crawl ends there, although the page
\* links to a further page
C23_Witness ==
    /\ HasTarget
    /\ outcome = "success"
    /\ Fetched = 2
    /\ matches = <<None, result>>
    /\ Len(cfg.target_keywords) = 2
    /\ KeywordScore(result, cfg.target_keywords) = 1
    /\ response.link.present
    /\ response.link.start_at > LastCursor

\* user_id or user_hash_4 is missing from the configuration
MissingCredentials == ~Truthy(inv.user_id) \/ ~Truthy(inv.user_hash_4)

\* the set-up of _scrape_post got past the configuration check and the URL
SetUpDone == PostOp /\ (CrawlRan \/ outcome = ErrMissingPoster)

\* the poster id the profile page of the invocation gave, empty if the page
\* was not fetched, the fetch failed or the page has none
ProfilePosterId ==
    IF profile_fetches = 0 \/ FetchFailure(profile) THEN <<>>
    ELSE _resolve_profile(ProfileUrl, profile).poster_id

\* C24: no feed request is issued with an empty user id, auth token or poster
\* id. An invocation of a scene or gallery operation without user_id or
\* user_hash_4 fails before any network request. The poster id is that of the
\* configuration, else of the URL, else of the username map, else of the
\* profile page, and an id of the profile page never replaces an earlier
\* one; without any, the invocation fails after at most one profile fetch and
\* no feed fetch. The profile page is fetched at most once, and only before
\* the first feed fetch.
C24_FeedNeedsIdentity ==
    /\ [](PostOp =>
            /\ profile_fetches \in {0, 1}
            /\ requests # <<>>
                  => /\ Truthy(inv.user_id)
                     /\ Truthy(inv.user_hash_4)
                     /\ Truthy(poster_id)
            /\ (MissingCredentials /\ m_pc = "exit")
                  => /\ outcome = ErrMissingConfig
                     /\ profile_fetches = 0
                     /\ Fetched = 0
            /\ SetUpDone
                  => /\ poster_id = (IF GivenPosterId # <<>> THEN GivenPosterId
                                     ELSE ProfilePosterId)
                     /\ (outcome = ErrMissingPoster) = (poster_id = <<>>)
                     /\ CrawlRan = (poster_id # <<>>)
            /\ outcome = ErrMissingPoster
                  => /\ m_pc = "exit"
                     /\ Fetched = 0
                     /\ exit_code = 1)
    /\ [][profile_fetches' # profile_fetches => requests' = <<>>]_vars
    /\ [][requests # <<>> => profile_fetches' = profile_fetches]_vars

\* no poster id in the configuration, the URL or the username map; the
\* profile page was fetched and has none either: the invocation fails after
\* one profile fetch, without a feed fetch
C24_Witness ==
    /\ PostOp
    /\ ~MissingCredentials
    /\ GivenPosterId = <<>>
    /\ profile_fetches = 1
    /\ ~FetchFailure(profile)
    /\ profile.html = EmptyPage
    /\ outcome = ErrMissingPoster
    /\ Fetched = 0
    /\ stdout = <<PrintedNull>>

GalleryOp == inv.op \in GalleryOps

\* the posts of the last page that the gallery crawl of the invocation
\* retains: not locked, and of kind photo or with photos and not a video
GalleryRetained ==
    SelectSeq(response.posts, LAMBDA p : ~p.locked /\ PhotoBearing(p))

\* C25: a gallery record is printed only for a post with at least one photo.
\* When the gallery crawl selects a post of kind photo with an empty photo
\* list, the invocation fails with "Selected post does not contain photos":
\* the scan does not go on to a later post or page with photos, so without a
\* target the selected post is the first retained post of its page, photos
\* or not.
C25_GalleryNeedsPhotos ==
    GalleryOp
        => /\ (m_pc = "exit" /\ exit_code = 0)
                 => /\ result # None
                    /\ result.photos # <<>>
                    /\ stdout[1].value["urls"] =
                          VList([i \in 1..Len(result.photos) |->
                                    VStr(result.photos[i])])
           /\ (m_pc = "exit" /\ result # None /\ result.photos = <<>>)
                 => /\ result.post_type = "photo"
                    /\ outcome = ErrNoPhotos
                    /\ exit_code = 1
                    /\ stdout = <<PrintedNull>>
                    /\ ~ENABLED MainNext
           /\ outcome = ErrNoPhotos => (result # None /\ result.photos = <<>>)
           /\ (result # None /\ ~HasTarget)
                 => (GalleryRetained # <<>> /\ result = GalleryRetained[1])

\* the page holds a photo post without photos and then a post with two
\* photos; the first is selected and the invocation prints null
C25_Witness ==
    /\ GalleryOp
    /\ m_pc = "exit"
    /\ Len(response.posts) = 2
    /\ response.posts[1].post_type = "photo"
    /\ response.posts[1].photos = <<>>
    /\ Len(response.posts[2].photos) = 2
    /\ ~response.posts[2].locked
    /\ result = response.posts[1]
    /\ outcome = ErrNoPhotos
    /\ stdout = <<PrintedNull>>
    /\ exit_code = 1

\* the caller of _scrape_post gave an id, a text, a date or keywords
CallerTarget ==
    \/ inv.target_id # <<>>
    \/ inv.target_text # <<>>
    \/ inv.target_date # NoDate
    \/ inv.target_keywords # <<>>

\* the post id of the URLs of the invocations: the first of the query
\* parameters post_id, postid, post, id that has a value, else the last run
\* of digits of the path
UrlPostId ==
    CASE inv.url = UrlPost -> <<"p","5">>
      [] inv.url = UrlBob9 -> <<"9">>
      [] inv.url = UrlIds -> <<"3","4">>
      [] OTHER -> <<>>

\* the crawl returned the first post seen, without a call of _find_target
FallbackTaken == outcome = "success" /\ find_calls = 0 /\ result = latest_post

\* C26: the target id of a crawl is the caller's id when given, otherwise
\* the post id of the URL. The latest-post fallback is taken only when the
\* caller gives no id, text, date or keywords and the URL has no post id; a
\* crawl for a URL with digits in its path and no other target field is an
\* identifier search: every page is given to _find_target, and the crawl
\* ends with "Target post not found" when no post has these digits, also
\* when posts were retained.
C26_UrlPostIdIsTarget ==
    (PostOp /\ CrawlRan)
        => /\ cfg.target_id = (IF inv.target_id # <<>> THEN inv.target_id
                               ELSE UrlPostId)
           /\ UrlPostId = _extract_ids_from_url(inv.url).post_id
           /\ HasTarget = (CallerTarget \/ UrlPostId # <<>>)
           /\ FallbackTaken => (~CallerTarget /\ UrlPostId = <<>>)
           /\ (~CallerTarget /\ UrlPostId = <<>>) => find_calls = 0
           /\ (~CallerTarget /\ UrlPostId # <<>>)
                 => /\ find_calls = (IF FetchFailure(response) THEN Fetched - 1
                                     ELSE Fetched)
                    /\ (pc = "done" /\ response # NoResponse
                           /\ ~FetchFailure(response)
                           /\ \A i \in 1..Len(cards) :
                                 cards[i].post_id_digits
                                    # _normalize_digits(UrlPostId))
                          => outcome = ErrNotFound

\* the URL is that of the profile "bob9" and the caller names no target: the
\* crawl looks for the post with digits 9, the page has a retained post but
\* none with these digits, and the invocation ends not found
C26_Witness ==
    /\ PostOp
    /\ m_pc = "exit"
    /\ CrawlRan
    /\ inv.url = UrlBob9
    /\ ~CallerTarget
    /\ cfg.target_id = <<"9">>
    /\ Fetched = 1
    /\ find_calls = 1
    /\ cards # <<>>
    /\ latest_post # None
    /\ outcome = ErrNotFound
    /\ stdout = <<PrintedNull>>

====
